---- MODULE Spec2Model ----
(***************************************************************************)
(* Model of the vectorMCP JSON-RPC adapter (src/server.js, lines 1-348;    *)
(* src/unnamed/part_000 is the same program with a smaller argument set).  *)
(*                                                                         *)
(* The program is an express application with one module-level catalog     *)
(* `tools`, one helper `callApi` wrapping axios, and one async handler for *)
(* POST /mcp.  Every request is an activation of that handler; it runs     *)
(* without interruption up to an `await` of a remote call, and several     *)
(* activations may be suspended at the same time.                          *)
(***************************************************************************)
EXTENDS Integers, Sequences, FiniteSets, TLC

(***************************************************************************)
(* Bounds of the model.                                                    *)
(***************************************************************************)
\* number of requests the server receives in one behaviour
MaxRequests == 3
\* largest athlete identifier the remote service hands out
MaxAthleteId == 1

(***************************************************************************)
(* JavaScript values.  Every value is a record tagged by `t`; the payload  *)
(* field has a different name per tag.                                     *)
(***************************************************************************)
Undefined == [t |-> "undefined"]
Null == [t |-> "null"]
Str(s) == [t |-> "str", s |-> s]
Num(n) == [t |-> "num", n |-> n]
Obj(f) == [t |-> "obj", f |-> f]
Arr(e) == [t |-> "arr", e |-> e]
Bool(b) == [t |-> "bool", b |-> b]
\* a function value; `fn` names the tool whose handler it is
Fn(name) == [t |-> "fn", fn |-> name]
\* the object literal {}
EmptyObj == Obj([k \in {} |-> Undefined])

\* v.k for a value that is not null or undefined
Get(v, k) == IF v.t = "obj" /\ k \in DOMAIN v.f THEN v.f[k] ELSE Undefined
\* v?.k
OptGet(v, k) == IF v \in {Undefined, Null} THEN Undefined ELSE Get(v, k)
\* does reading a property of v throw a TypeError
Throws(v) == v \in {Undefined, Null}
\* ToBoolean
Truthy(v) == ~ \/ v \in {Undefined, Null}
               \/ (v.t = "str" /\ v.s = "")
               \/ (v.t = "num" /\ v.n = 0)
               \/ (v.t = "bool" /\ ~v.b)
\* a || b
Or(a, b) == IF Truthy(a) THEN a ELSE b
\* a === b : objects, arrays and functions parsed from different messages
\* are never the same reference
StrictEq(a, b) == a.t \in {"undefined", "null", "str", "num", "bool"} /\ a = b

Digit(d) == CASE d = 0 -> "0" [] d = 1 -> "1" [] d = 2 -> "2" [] d = 3 -> "3"
              [] d = 4 -> "4" [] d = 5 -> "5" [] d = 6 -> "6" [] d = 7 -> "7"
              [] d = 8 -> "8" [] d = 9 -> "9"
\* Number to String for an integer
RECURSIVE NumToStr(_)
NumToStr(n) ==
    IF n < 0 THEN "-" \o NumToStr(-n)
    ELSE IF n < 10 THEN Digit(n)
    ELSE NumToStr(n \div 10) \o Digit(n % 10)

\* does ToString throw a TypeError: an object parsed from JSON with an own
\* member toString (never callable) has no primitive value, and an array
\* joins the strings of its elements
RECURSIVE ToStrThrows(_)
ToStrThrows(v) ==
    CASE v.t = "obj" -> "toString" \in DOMAIN v.f
      [] v.t = "arr" -> \E i \in DOMAIN v.e :
                            v.e[i] \notin {Undefined, Null} /\ ToStrThrows(v.e[i])
      [] OTHER -> FALSE

\* ToString, as applied by a template literal `${v}`, of a value parsed from
\* JSON for which it does not throw
RECURSIVE ToStr(_)
RECURSIVE JoinFrom(_, _)
JoinFrom(e, i) ==
    IF i > Len(e) THEN ""
    ELSE (IF i > 1 THEN "," ELSE "")
         \o (IF e[i] \in {Undefined, Null} THEN "" ELSE ToStr(e[i]))
         \o JoinFrom(e, i + 1)
ToStr(v) == CASE v.t = "undefined" -> "undefined"
              [] v.t = "null" -> "null"
              [] v.t = "str" -> v.s
              [] v.t = "num" -> NumToStr(v.n)
              [] v.t = "bool" -> IF v.b THEN "true" ELSE "false"
              [] v.t = "obj" -> "[object Object]"
              [] v.t = "arr" -> JoinFrom(v.e, 1)

\* JSON.stringify followed by the client's parse: members whose value is
\* undefined or a function are dropped, such array elements become null
RECURSIVE Json(_)
Json(v) ==
    CASE v.t = "obj" ->
           Obj([k \in {j \in DOMAIN v.f : v.f[j].t \notin {"undefined", "fn"}}
                  |-> Json(v.f[k])])
      [] v.t = "arr" ->
           Arr([i \in DOMAIN v.e |->
                  IF v.e[i].t \in {"undefined", "fn"} THEN Null ELSE Json(v.e[i])])
      [] OTHER -> v


(***************************************************************************)
(* The remote call adapter: callApi (src/server.js:13-42).                 *)
(***************************************************************************)
\* env: process.env.VECTOR_API_URL when the module is loaded, undefined when
\* the variable is not set
VARIABLE env
\* process.env.VECTOR_API_URL || "https://vectorapi.up.railway.app/v1"
VECTOR_API_URL == Or(env, Str("https://vectorapi.up.railway.app/v1")).s

\* what axios does with one request: it resolves with a response carrying
\* `data`, or rejects with an error that carries a message and, when the
\* remote service answered, a response with `status` and `data`
Resolved(data) == [ok |-> TRUE, data |-> data]
Rejected(hasResponse, status, data, message) ==
    [ok |-> FALSE, hasResponse |-> hasResponse, status |-> status,
     data |-> data, message |-> message]

\* the axios config built by callApi(method, endpoint, data = {}, params = {})
AxiosConfig(method, endpoint, data, params) ==
    [method |-> method,
     url |-> VECTOR_API_URL \o endpoint,
     data |-> IF data = Undefined THEN EmptyObj ELSE data,
     params |-> IF params = Undefined THEN EmptyObj ELSE params]

\* err.response?.status
ErrStatus(o) == IF o.hasResponse THEN Num(o.status) ELSE Undefined
\* err.response?.data || err.message
ErrDetalhe(o) == Or(IF o.hasResponse THEN o.data ELSE Undefined, Str(o.message))

\* the value callApi returns for an outcome of its axios request, with the
\* codigo a bug would lose
CallApiReturn_NoCodigo(o) ==
    IF o.ok THEN o.data
    ELSE Obj([status |-> Str("erro"), codigo |-> Undefined, detalhe |-> ErrDetalhe(o)])
\* the value callApi returns if its catch block returns nothing
CallApiReturn_NoReturn(o) == IF o.ok THEN o.data ELSE Undefined
\* the value callApi returns for an outcome of its axios request
CallApiReturn(o) ==
    IF o.ok THEN o.data
    ELSE Obj([status |-> Str("erro"), codigo |-> ErrStatus(o), detalhe |-> ErrDetalhe(o)])

(***************************************************************************)
(* The tool catalog: const tools = [...] (src/server.js:45-303).           *)
(***************************************************************************)
\* { type: <ty> }
Ty(ty) == Obj([type |-> Str(ty)])
\* { type: "object", properties: <props>, required: [<req>...] }
Schema(props, req) ==
    Obj([type |-> Str("object"), properties |-> Obj(props),
         required |-> Arr([i \in DOMAIN req |-> Str(req[i])])])
\* one entry of the catalog
Tool(name, description, inputSchema) ==
    Obj([name |-> Str(name), description |-> Str(description),
         inputSchema |-> inputSchema, handler |-> Fn(name)])

ProfileDataSchema ==
    Obj([type |-> Str("object"),
         properties |-> Obj([idade |-> Ty("string"), sexo |-> Ty("string"),
                             peso_corporal_kg |-> Ty("string"),
                             altura_cm |-> Ty("string"), fc_max |-> Ty("string"),
                             posicao |-> Ty("string"),
                             historico_lesoes |->
                                 Obj([type |-> Str("array"), items |-> Ty("string")])])])

ToolCatalog_Dup ==
    LET listar == Tool("listar_atletas", "Lista atletas cadastrados",
                       Schema([customer_id |-> Ty("string")], <<"customer_id">>))
    IN  <<listar, listar>>
ToolCatalog == <<
    Tool("adicionar_atleta", "Cadastra um novo atleta",
         Schema([customer_id |-> Ty("string"), name |-> Ty("string"),
                 birth_date |-> Ty("string"), sport |-> Ty("string"),
                 profile_data |-> ProfileDataSchema],
                <<"customer_id", "name", "sport">>)),
    Tool("listar_atletas", "Lista atletas cadastrados",
         Schema([customer_id |-> Ty("string")], <<"customer_id">>)),
    Tool("buscar_atleta_pelo_nome", "Busca atleta pelo nome",
         Schema([customer_id |-> Ty("string"), athlete_name |-> Ty("string")],
                <<"customer_id", "athlete_name">>)),
    Tool("deletar_atleta", "Remove atleta pelo nome",
         Schema([customer_id |-> Ty("string"), athlete_name |-> Ty("string")],
                <<"customer_id", "athlete_name">>)),
    Tool("registrar_treino", "Registra treino para atleta",
         Schema([customer_id |-> Ty("string"), athlete_name |-> Ty("string"),
                 workout_details |-> Ty("string"), rpe |-> Ty("integer"),
                 duration_minutes |-> Ty("integer")],
                <<"customer_id", "athlete_name", "workout_details">>)),
    Tool("registrar_avaliacao", "Registra avaliação formal",
         Schema([customer_id |-> Ty("string"), athlete_name |-> Ty("string"),
                 tipo_avaliacao |-> Ty("string"), resultados |-> Ty("object")],
                <<"customer_id", "athlete_name", "tipo_avaliacao", "resultados">>)),
    Tool("registrar_bem_estar", "Registra bem-estar diário do atleta",
         Schema([customer_id |-> Ty("string"), athlete_name |-> Ty("string"),
                 qualidade_sono |-> Ty("string"), nivel_estresse |-> Ty("string"),
                 dores_musculares |-> Ty("string"), prontidao_cmj |-> Ty("string")],
                <<"customer_id", "athlete_name", "qualidade_sono", "nivel_estresse">>)),
    Tool("gerar_mesociclo", "Gera mesociclo de treino",
         Schema([customer_id |-> Ty("string"), athlete_name |-> Ty("string"),
                 meso_name |-> Ty("string"), start_date |-> Ty("string"),
                 duracao_semanas |-> Ty("string"), progression_type |-> Ty("string"),
                 progression_details |-> Ty("object")],
                <<"customer_id", "athlete_name", "meso_name", "duracao_semanas",
                  "progression_type">>)),
    Tool("gerar_relatorio_atleta", "Gera relatório completo de atleta",
         Schema([customer_id |-> Ty("string"), athlete_name |-> Ty("string")],
                <<"customer_id", "athlete_name">>)),
    Tool("gerar_relatorio_equipe", "Gera relatório consolidado da equipe",
         Schema([customer_id |-> Ty("string")], <<"customer_id">>)),
    Tool("gerar_grafico_performance", "Gera gráfico de performance de uma métrica",
         Schema([customer_id |-> Ty("string"), athlete_name |-> Ty("string"),
                 metric_name |-> Ty("string")],
                <<"customer_id", "athlete_name", "metric_name">>)) >>

(***************************************************************************)
(* The handlers of the catalog entries (the `handler` members).            *)
(***************************************************************************)
\* the object literal { k1: args.k1, ... } for the names in ks
Pick(args, ks) == Obj([k \in ks |-> Get(args, k)])
\* f with the members of g added or replaced
With(o, g) == Obj([k \in DOMAIN o.f \cup DOMAIN g |-> IF k \in DOMAIN g THEN g[k] ELSE o.f[k]])

\* does the handler throw before its callApi invocation: three handlers put
\* args.athlete_name in a template literal
HandlerThrows(fn, args) ==
    /\ fn \in {"buscar_atleta_pelo_nome", "deletar_atleta", "gerar_relatorio_atleta"}
    /\ ToStrThrows(Get(args, "athlete_name"))
\* the callApi invocation a handler makes when it is called with args
HandlerCall(fn, args) ==
    CASE fn = "adicionar_atleta" ->
           AxiosConfig("POST", "/athletes/",
               With(Pick(args, {"customer_id", "name", "birth_date", "sport"}),
                    [profile_data |-> Or(Get(args, "profile_data"), EmptyObj)]),
               Undefined)
      [] fn = "listar_atletas" ->
           AxiosConfig("GET", "/athletes/", EmptyObj, Pick(args, {"customer_id"}))
      [] fn = "buscar_atleta_pelo_nome" ->
           AxiosConfig("GET", "/athletes/" \o ToStr(Get(args, "athlete_name")),
               EmptyObj, Pick(args, {"customer_id"}))
      [] fn = "deletar_atleta" ->
           AxiosConfig("GET", "/athletes/" \o ToStr(Get(args, "athlete_name")),
               EmptyObj, Pick(args, {"customer_id"}))
      [] fn = "registrar_treino" ->
           AxiosConfig("POST", "/workouts/",
               With(Pick(args, {"customer_id", "athlete_name", "workout_details"}),
                    [rpe |-> Or(Get(args, "rpe"), Null),
                     duration_minutes |-> Or(Get(args, "duration_minutes"), Null)]),
               Undefined)
      [] fn = "registrar_avaliacao" ->
           AxiosConfig("POST", "/assessments/",
               Pick(args, {"customer_id", "athlete_name", "tipo_avaliacao", "resultados"}),
               Undefined)
      [] fn = "registrar_bem_estar" ->
           AxiosConfig("POST", "/wellness/log",
               With(Pick(args, {"customer_id", "athlete_name", "qualidade_sono",
                                "nivel_estresse"}),
                    [dores_musculares |-> Or(Get(args, "dores_musculares"), Str("Nenhuma")),
                     prontidao_cmj |-> Or(Get(args, "prontidao_cmj"), Null)]),
               Undefined)
      [] fn = "gerar_mesociclo" ->
           AxiosConfig("POST", "/planning/generate-mesocycle",
               With(Pick(args, {"customer_id", "athlete_name", "meso_name", "start_date",
                                "duracao_semanas", "progression_type"}),
                    [progression_details |-> Or(Get(args, "progression_details"), EmptyObj)]),
               Undefined)
      [] fn = "gerar_relatorio_atleta" ->
           AxiosConfig("GET", "/reports/athlete-report/" \o ToStr(Get(args, "athlete_name")),
               EmptyObj, Pick(args, {"customer_id"}))
      [] fn = "gerar_relatorio_equipe" ->
           AxiosConfig("GET", "/reports/team-report", EmptyObj, Pick(args, {"customer_id"}))
      [] fn = "gerar_grafico_performance" ->
           AxiosConfig("GET", "/charts/performance-chart", EmptyObj,
               Pick(args, {"customer_id", "athlete_name", "metric_name"}))

\* deletar_atleta going on to the DELETE call whatever was resolved
HasId_Always(atleta) == TRUE
\* deletar_atleta: does the handler go on to the DELETE call after the
\* resolution call returned atleta
HasId(atleta) == Truthy(OptGet(atleta, "id"))
\* deletar_atleta: does the template literal of the DELETE path throw
DeleteThrows(atleta) == ToStrThrows(Get(atleta, "id"))
\* deletar_atleta: the DELETE call for the resolved record
DeleteCall(args, atleta) ==
    AxiosConfig("DELETE", "/athletes/" \o ToStr(Get(atleta, "id")),
        Pick(args, {"customer_id"}), Undefined)
\* deletar_atleta: the value returned when the record has no id
NotFound == Obj([status |-> Str("erro"), detalhe |-> Str("Atleta não encontrado")])

(***************************************************************************)
(* The JSON-RPC handler: app.post("/mcp", ...) (src/server.js:306-331).    *)
(***************************************************************************)
\* the result of the initialize branch
InitializeResult ==
    Obj([protocolVersion |-> Str("2024-11-05"),
         capabilities |-> Obj([tools |-> Obj([listChanged |-> Bool(FALSE)])]),
         serverInfo |-> Obj([name |-> Str("vector-ai-sports"), version |-> Str("1.0.0")])])

\* the JSON-RPC code both error branches use
MethodNotFound == -32601

\* the error of the tools/call branch with the code of another JSON-RPC error
ToolNotFoundError_InvalidParams ==
    Obj([code |-> Num(-32602), message |-> Str("Tool não encontrada")])
\* the error of the tools/call branch when no tool has the name
ToolNotFoundError ==
    Obj([code |-> Num(MethodNotFound), message |-> Str("Tool não encontrada")])
\* the error of the last branch
MethodNotFoundError(method) ==
    Obj([code |-> Num(MethodNotFound),
         message |-> Str("Method not found: " \o ToStr(method))])

\* tools.find((t) => t.name === name)
Find(catalog, name) ==
    LET hits == {i \in DOMAIN catalog : StrictEq(Get(catalog[i], "name"), name)}
    IN  IF hits = {} THEN Undefined
        ELSE catalog[CHOOSE i \in hits : \A j \in hits : i <= j]

\* the handler's outcomes at the point where it either answers, suspends
\* in tool.handler, or throws
Respond(result, error) == [kind |-> "respond", result |-> result, error |-> error]
Call(tool, args) == [kind |-> "call", tool |-> tool, args |-> args]
Throw == [kind |-> "throw"]

\* the handler from its entry to its first suspension, for req.body and the
\* catalog; destructuring req.body, like destructuring params, throws a
\* TypeError on undefined and null, and so does the template literal of the
\* last branch on a method without a string
Dispatch(body, catalog) ==
    LET method == Get(body, "method")
        params == Get(body, "params")
    IN  IF Throws(body) THEN Throw
        ELSE IF StrictEq(method, Str("initialize")) THEN
            Respond(InitializeResult, Undefined)
        ELSE IF StrictEq(method, Str("tools/list")) THEN
            Respond(Obj([tools |-> Arr(catalog)]), Undefined)
        ELSE IF StrictEq(method, Str("tools/call")) THEN
            IF Throws(params) THEN Throw
            ELSE LET name == Get(params, "name")
                     args == Get(params, "arguments")
                     tool == Find(catalog, name)
                 IN  IF ~Truthy(tool) THEN
                         Respond(Undefined, ToolNotFoundError)
                     ELSE Call(tool, Or(args, EmptyObj))
        ELSE IF ToStrThrows(method) THEN Throw
        ELSE
            Respond(Undefined, MethodNotFoundError(method))

\* a body that answers with a null id
Response_NullId(id, result, error) ==
    Json(Obj([jsonrpc |-> Str("2.0"), id |-> Null, result |-> result, error |-> error]))
\* the body res.json puts on the wire
Response(id, result, error) ==
    Json(Obj([jsonrpc |-> Str("2.0"), id |-> id, result |-> result, error |-> error]))

(***************************************************************************)
(* State.                                                                  *)
(***************************************************************************)
\* tools: the module-level catalog; and per request, pc: where its handler
\* activation stands, req: req.body, tool: the handler's local `tool`,
\* args: the argument the tool handler was called with, calls: the axios
\* requests issued so far, rets: the outcomes axios delivered so far,
\* resp: the bodies passed to res.json so far; env is declared with
\* VECTOR_API_URL
VARIABLES tools, pc, req, tool, args, calls, rets, resp

vars == <<env, tools, pc, req, tool, args, calls, rets, resp>>

\* requests, numbered in order of arrival
Reqs == 1 .. MaxRequests

\* the values process.env.VECTOR_API_URL has when the process starts
Envs == {Undefined, Str(""), Str("http://localhost:8000/v1")}

Init ==
    /\ env \in Envs
    /\ tools = ToolCatalog
    /\ pc = [r \in Reqs |-> "idle"]
    /\ req = [r \in Reqs |-> Undefined]
    /\ tool = [r \in Reqs |-> Undefined]
    /\ args = [r \in Reqs |-> Undefined]
    /\ calls = [r \in Reqs |-> <<>>]
    /\ rets = [r \in Reqs |-> <<>>]
    /\ resp = [r \in Reqs |-> <<>>]

\* what the handler does to its own activation when request r arrives with
\* the parsed body `body`: it runs up to its first await, its res.json, or
\* a TypeError, thrown by the handler itself or by the tool handler before
\* its first remote call
Activate(r, body) ==
    /\ pc[r] = "idle"
    /\ \A q \in Reqs : q < r => pc[q] # "idle"
    /\ req' = [req EXCEPT ![r] = body]
    /\ LET d == Dispatch(body, tools)
       IN  CASE d.kind = "respond" ->
                  /\ pc' = [pc EXCEPT ![r] = "done"]
                  /\ resp' = [resp EXCEPT ![r] =
                                 Append(@, Response(Get(body, "id"), d.result, d.error))]
                  /\ UNCHANGED <<tool, args, calls>>
             [] d.kind = "call" ->
                  /\ tool' = [tool EXCEPT ![r] = d.tool]
                  /\ args' = [args EXCEPT ![r] = d.args]
                  /\ IF HandlerThrows(Get(d.tool, "handler").fn, d.args)
                     THEN /\ pc' = [pc EXCEPT ![r] = "fault"]
                          /\ UNCHANGED calls
                     ELSE /\ pc' = [pc EXCEPT ![r] =
                                       IF Get(d.tool, "handler").fn = "deletar_atleta"
                                       THEN "resolve" ELSE "call"]
                          /\ calls' = [calls EXCEPT ![r] =
                                          Append(@, HandlerCall(Get(d.tool, "handler").fn,
                                                                d.args))]
                  /\ UNCHANGED resp
             [] d.kind = "throw" ->
                  /\ pc' = [pc EXCEPT ![r] = "fault"]
                  /\ UNCHANGED <<tool, args, calls, resp>>
    /\ UNCHANGED <<env, rets>>

\* request r arrives and a tools/call takes the first entry off the catalog
Receive_Shift(r, body) ==
    /\ Activate(r, body)
    /\ tools' = IF StrictEq(Get(body, "method"), Str("tools/call")) /\ tools # <<>>
                THEN Tail(tools) ELSE tools
\* request r arrives: the handler reads the catalog and never writes it
Receive(r, body) ==
    /\ Activate(r, body)
    /\ UNCHANGED tools

\* a return that is delivered only when no earlier request is suspended, as
\* if the remote call blocked the process
CallReturn_Serial(r, o) ==
    /\ pc[r] \in {"call", "delete"}
    /\ \A q \in Reqs : q < r => pc[q] \notin {"call", "resolve", "delete"}
    /\ rets' = [rets EXCEPT ![r] = Append(@, o)]
    /\ pc' = [pc EXCEPT ![r] = "done"]
    /\ resp' = [resp EXCEPT ![r] =
                   Append(@, Response(Get(req[r], "id"), CallApiReturn(o), Undefined))]
    /\ UNCHANGED <<env, tools, req, tool, args, calls>>
\* the callApi whose value is the handler's value returns with outcome o:
\* result = await tool.handler(...); res.json(...)
CallReturn(r, o) ==
    /\ pc[r] \in {"call", "delete"}
    /\ rets' = [rets EXCEPT ![r] = Append(@, o)]
    /\ pc' = [pc EXCEPT ![r] = "done"]
    /\ resp' = [resp EXCEPT ![r] =
                   Append(@, Response(Get(req[r], "id"), CallApiReturn(o), Undefined))]
    /\ UNCHANGED <<env, tools, req, tool, args, calls>>

\* a resolution that remembers the records other requests went on to delete
\* and reports them as not found
ResolveReturn_Remember(r, o) ==
    /\ pc[r] = "resolve"
    /\ rets' = [rets EXCEPT ![r] = Append(@, o)]
    /\ LET atleta == CallApiReturn(o)
       IN  IF /\ HasId(atleta)
              /\ ~\E q \in Reqs \ {r} : /\ Len(calls[q]) = 2
                                        /\ calls[q][2] = DeleteCall(args[r], atleta)
           THEN /\ calls' = [calls EXCEPT ![r] = Append(@, DeleteCall(args[r], atleta))]
                /\ pc' = [pc EXCEPT ![r] = "delete"]
                /\ UNCHANGED resp
           ELSE /\ pc' = [pc EXCEPT ![r] = "done"]
                /\ resp' = [resp EXCEPT ![r] =
                               Append(@, Response(Get(req[r], "id"), NotFound, Undefined))]
                /\ UNCHANGED calls
    /\ UNCHANGED <<env, tools, req, tool, args>>
\* a resolution whose `atleta` is shared by the requests: while another
\* request is between its resolution and its DELETE, its record is the one
\* deleted
ResolveReturn_Shared(r, o) ==
    /\ pc[r] = "resolve"
    /\ rets' = [rets EXCEPT ![r] = Append(@, o)]
    /\ LET others == {q \in Reqs \ {r} : pc[q] = "delete"}
           atleta == IF others = {} THEN CallApiReturn(o)
                     ELSE CallApiReturn(rets[CHOOSE q \in others : TRUE][1])
       IN  IF HasId(atleta)
           THEN /\ calls' = [calls EXCEPT ![r] = Append(@, DeleteCall(args[r], atleta))]
                /\ pc' = [pc EXCEPT ![r] = "delete"]
                /\ UNCHANGED resp
           ELSE /\ pc' = [pc EXCEPT ![r] = "done"]
                /\ resp' = [resp EXCEPT ![r] =
                               Append(@, Response(Get(req[r], "id"), NotFound, Undefined))]
                /\ UNCHANGED calls
    /\ UNCHANGED <<env, tools, req, tool, args>>
\* deletar_atleta: the resolution callApi returns with outcome o; the
\* handler issues the DELETE, returns the not-found value, or throws
\* building the DELETE path
ResolveReturn(r, o) ==
    /\ pc[r] = "resolve"
    /\ rets' = [rets EXCEPT ![r] = Append(@, o)]
    /\ LET atleta == CallApiReturn(o)
       IN  IF HasId(atleta) /\ DeleteThrows(atleta)
           THEN /\ pc' = [pc EXCEPT ![r] = "fault"]
                /\ UNCHANGED <<calls, resp>>
           ELSE IF HasId(atleta)
           THEN /\ calls' = [calls EXCEPT ![r] = Append(@, DeleteCall(args[r], atleta))]
                /\ pc' = [pc EXCEPT ![r] = "delete"]
                /\ UNCHANGED resp
           ELSE /\ pc' = [pc EXCEPT ![r] = "done"]
                /\ resp' = [resp EXCEPT ![r] =
                               Append(@, Response(Get(req[r], "id"), NotFound, Undefined))]
                /\ UNCHANGED calls
    /\ UNCHANGED <<env, tools, req, tool, args>>

(***************************************************************************)
(* Inputs: parsed request bodies and axios outcomes.                       *)
(***************************************************************************)
\* the body express.json() hands to the handler for {id, method, params};
\* a member that is undefined here is absent from the message
Body(id, method, params) == Json(Obj([id |-> id, method |-> method, params |-> params]))
\* params of a tools/call
Params(name, arguments) == Json(Obj([name |-> name, arguments |-> arguments]))

\* the value of the JSON text {"toString": 1}
NoString == Obj([toString |-> Num(1)])
SomeArgs == Obj([customer_id |-> Str("c1"), athlete_name |-> Str("Ana")])
FullArgs ==
    Obj([customer_id |-> Str("c1"), athlete_name |-> Str("Ana"), name |-> Str("Ana"),
         sport |-> Str("judo"), workout_details |-> Str("5x5"), rpe |-> Num(0),
         tipo_avaliacao |-> Str("cmj"), resultados |-> Obj([altura |-> Num(40)]),
         qualidade_sono |-> Str("boa"), nivel_estresse |-> Str("baixo"),
         meso_name |-> Str("base"), duracao_semanas |-> Str("4"),
         progression_type |-> Str("linear"), metric_name |-> Str("cmj")])

\* the names the catalog declares, in the order of the source
DeclaredNames ==
    <<"adicionar_atleta", "listar_atletas", "buscar_atleta_pelo_nome", "deletar_atleta",
      "registrar_treino", "registrar_avaliacao", "registrar_bem_estar", "gerar_mesociclo",
      "gerar_relatorio_atleta", "gerar_relatorio_equipe", "gerar_grafico_performance">>

\* the axios outcomes of a remote service whose athletes have the given ids:
\* an athlete record, or a 404
AthleteOutcomes(ids) ==
    {Resolved(Obj([id |-> Num(i), name |-> Str("Ana")])) : i \in ids}
    \cup {Rejected(TRUE, 404, Obj([detail |-> Str("Not found")]),
                   "Request failed with status code 404")}

(***************************************************************************)
(* Spec: MaxRequests requests, handled concurrently.                       *)
(***************************************************************************)
Bodies ==
    {Body(Undefined, Str("initialize"), Undefined),
     Body(Num(1), Str("initialize"), Undefined),
     Body(Num(1), Str("tools/list"), Undefined),
     Body(Str("a"), Str("tools/list"), Undefined),
     Body(Num(1), Str("ping"), Undefined),
     Body(Num(1), Str("tools/call"), Undefined),
     Body(Str("a"), Str("tools/call"), Params(Str("inexistente"), SomeArgs)),
     Body(Num(1), Str("tools/call"), Params(Str("listar_atletas"), SomeArgs)),
     Body(Str("a"), Str("tools/call"), Params(Str("deletar_atleta"), SomeArgs))}
Outcomes == AthleteOutcomes({1, 2})

Next ==
    \/ \E r \in Reqs, body \in Bodies : Receive(r, body)
    \/ \E r \in Reqs, o \in Outcomes : CallReturn(r, o)
    \/ \E r \in Reqs, o \in Outcomes : ResolveReturn(r, o)

Spec == Init /\ [][Next]_vars

(***************************************************************************)
(* RequestSpec: one request, over every shape of body and of outcome.      *)
(***************************************************************************)
AllIds == {Undefined, Null, Num(1), Str("a")}
AllMethods ==
    {Str("initialize"), Str("tools/list"), Str("tools/call"), Str("ping"),
     Str("Initialize"), Str(""), Undefined, Null, Num(1), Num(-5),
     Arr(<<Str("initialize")>>), NoString, Arr(<<Str("a"), NoString>>)}
AllNames ==
    {Str(DeclaredNames[i]) : i \in DOMAIN DeclaredNames}
    \cup {Undefined, Null, Num(1), Str("inexistente"), Str("Listar_Atletas"),
          Arr(<<Str("listar_atletas")>>)}
AllArgs ==
    {Undefined, Null, EmptyObj, Str("x"), SomeArgs, FullArgs,
     Obj([customer_id |-> Str("c1"), athlete_name |-> NoString]),
     Obj([athlete_name |-> NoString])}
AllParams ==
    {Undefined, Null, EmptyObj, Str("x")}
    \cup {Params(n, a) : n \in AllNames, a \in AllArgs}
\* req.body is undefined when express.json() parsed no body and the express
\* in use leaves req.body unset
AllBodies ==
    {Body(id, m, p) : id \in AllIds, m \in AllMethods, p \in AllParams} \cup {Undefined}
AllOutcomes ==
    AthleteOutcomes(0 .. MaxAthleteId)
    \cup {Resolved(Null), Resolved(Str("")), Resolved(Obj([name |-> Str("Ana")])),
          Resolved(Arr(<<Obj([id |-> Num(1), name |-> Str("Ana")])>>)),
          Resolved(Obj([id |-> Str("")])), Resolved(Obj([id |-> Null])),
          Resolved(Obj([id |-> Str("7f")])), Resolved(Obj([id |-> Num(-1)])),
          Resolved(Obj([id |-> NoString])),
          Resolved(Obj([id |-> Arr(<<Num(1), NoString>>)])),
          Rejected(TRUE, 500, Str(""), "Request failed with status code 500"),
          Rejected(TRUE, 404, Obj([id |-> Num(1)]), "Request failed with status code 404"),
          Rejected(FALSE, 0, Undefined, "Network Error")}

NextRequest ==
    \/ \E body \in AllBodies : Receive(1, body)
    \/ \E o \in AllOutcomes : CallReturn(1, o)
    \/ \E o \in AllOutcomes : ResolveReturn(1, o)

RequestSpec == Init /\ [][NextRequest]_vars

(***************************************************************************)
(* StallSpec: MaxRequests concurrent requests, most of them tool calls,    *)
(* whose remote calls need not return.                                     *)
(***************************************************************************)
StallBodies ==
    {Body(Num(1), Str("tools/list"), Undefined),
     Body(Num(1), Str("tools/call"), Params(Str("listar_atletas"), SomeArgs)),
     Body(Str("a"), Str("tools/call"), Params(Str("deletar_atleta"), SomeArgs))}
StallOutcomes == AthleteOutcomes({1})

\* the outstanding remote call of request r returns
Returns(r) == \E o \in StallOutcomes : CallReturn(r, o) \/ ResolveReturn(r, o)

NextStall ==
    \/ \E r \in Reqs, body \in StallBodies : Receive(r, body)
    \/ \E r \in Reqs, o \in StallOutcomes : CallReturn(r, o)
    \/ \E r \in Reqs, o \in StallOutcomes : ResolveReturn(r, o)

StallSpec == Init /\ [][NextStall]_vars

(***************************************************************************)
(* Properties.                                                             *)
(***************************************************************************)
\* does the object v have the member k
Has(v, k) == v.t = "obj" /\ k \in DOMAIN v.f
\* does the string s contain the string sub
Contains(s, sub) ==
    \E i \in 1 .. (Len(s) - Len(sub) + 1) : SubSeq(s, i, i + Len(sub) - 1) = sub
MethodOf(r) == Get(req[r], "method")
ParamsOf(r) == Get(req[r], "params")
IsMethod(r, m) == pc[r] # "idle" /\ StrictEq(MethodOf(r), Str(m))
\* request r ran the handler of the tool fn
Runs(r, fn) == tool[r] # Undefined /\ Get(tool[r], "name") = Str(fn)
\* the value the tool handler of the answered request r returned
Returned(r) ==
    IF Runs(r, "deletar_atleta")
    THEN IF Len(rets[r]) = 2 THEN CallApiReturn(rets[r][2]) ELSE NotFound
    ELSE CallApiReturn(rets[r][1])
\* err.response?.status of a rejected outcome
StatusOf(o) == IF o.hasResponse THEN Num(o.status) ELSE Undefined

\* C1: every response the handler sends has exactly one of the members
\* `result` and `error`
C1_ExactlyOne ==
    \A r \in Reqs : \A i \in DOMAIN resp[r] :
        Has(resp[r][i], "result") # Has(resp[r][i], "error")
C1_Witness ==
    \E r \in Reqs : /\ pc[r] = "done"
                    /\ Len(rets[r]) = 1
                    /\ ~rets[r][1].ok
                    /\ Has(resp[r][1], "result")

\* C2: a tools/call whose params carry a name that no catalog entry has is
\* answered with error {code: -32601, message: "Tool não encontrada"} and
\* without result
C2_UnknownTool ==
    \A r \in Reqs :
        (/\ IsMethod(r, "tools/call")
         /\ ~Throws(ParamsOf(r))
         /\ \A i \in DOMAIN DeclaredNames :
               Get(ParamsOf(r), "name") # Str(DeclaredNames[i]))
        => /\ pc[r] = "done"
           /\ Len(resp[r]) = 1
           /\ Get(resp[r][1], "error") =
                  Obj([code |-> Num(-32601), message |-> Str("Tool não encontrada")])
           /\ ~Has(resp[r][1], "result")
           /\ calls[r] = <<>>
C2_Witness ==
    \E r \in Reqs : /\ IsMethod(r, "tools/call")
                    /\ Get(ParamsOf(r), "name") = Str("inexistente")
                    /\ Has(resp[r][1], "error")

\* C3 as stated: a request with a parsed body whose method is none of initialize,
\* tools/list and tools/call, or is absent, is answered with an error of
\* code -32601 whose message contains the method as a string, and without
\* result
C3_UnknownMethod ==
    \A r \in Reqs :
        (/\ pc[r] # "idle"
         /\ ~Throws(req[r])
         /\ \A m \in {"initialize", "tools/list", "tools/call"} : ~IsMethod(r, m))
        => /\ pc[r] = "done"
           /\ Len(resp[r]) = 1
           /\ ~Has(resp[r][1], "result")
           /\ Get(Get(resp[r][1], "error"), "code") = Num(-32601)
           /\ Get(Get(resp[r][1], "error"), "message").t = "str"
           /\ Contains(Get(Get(resp[r][1], "error"), "message").s, ToStr(MethodOf(r)))
\* C4 as stated: a tools/call that names a registered tool, once the remote
\* calls of its handler have returned, has been answered with result equal
\* to the value the tool handler returned and no error, whether the remote
\* call succeeded or failed
C4_ToolResult ==
    \A r \in Reqs :
        (/\ IsMethod(r, "tools/call")
         /\ ~Throws(ParamsOf(r))
         /\ \E i \in DOMAIN DeclaredNames :
                Get(ParamsOf(r), "name") = Str(DeclaredNames[i])
         /\ Len(rets[r]) = Len(calls[r]))
        => /\ Len(resp[r]) = 1
           /\ Has(resp[r][1], "result")
           /\ Get(resp[r][1], "result") = Json(Returned(r))
           /\ ~Has(resp[r][1], "error")

\* C5 as stated: whenever any remote call of a tool handler fails with
\* status S, the result has status "erro" and codigo S
C5_EveryFailureCarriesCodigo ==
    \A r \in Reqs :
        (pc[r] = "done" /\ tool[r] # Undefined)
        => \A i \in DOMAIN rets[r] :
              ~rets[r][i].ok
              => /\ Get(Get(resp[r][1], "result"), "status") = Str("erro")
                 /\ Get(Get(resp[r][1], "result"), "codigo") = StatusOf(rets[r][i])
\* C5: when the remote call whose value the handler returns (the only call
\* of a one-call tool, the DELETE of deletar_atleta) fails with status S,
\* the result has status "erro" and codigo S and there is no error; when
\* the resolution call of deletar_atleta fails, the result is the not-found
\* value, which has no codigo
C5_FailurePropagation ==
    \A r \in Reqs :
        (pc[r] = "done" /\ tool[r] # Undefined)
        => LET first == rets[r][1]
               last == rets[r][Len(rets[r])]
               res == Get(resp[r][1], "result")
           IN  /\ ((Runs(r, "deletar_atleta") => Len(rets[r]) = 2) /\ ~last.ok)
                  => /\ Get(res, "status") = Str("erro")
                     /\ Get(res, "codigo") = StatusOf(last)
                     /\ Has(res, "codigo") = last.hasResponse
                     /\ ~Has(resp[r][1], "error")
               /\ (Runs(r, "deletar_atleta") /\ ~first.ok)
                  => /\ Len(rets[r]) = 1
                     /\ res = Obj([status |-> Str("erro"),
                                   detalhe |-> Str("Atleta não encontrado")])
                     /\ ~Has(resp[r][1], "error")
C5_Witness ==
    \E r \in Reqs : /\ pc[r] = "done"
                    /\ Runs(r, "deletar_atleta")
                    /\ Len(rets[r]) = 2
                    /\ ~rets[r][2].ok
                    /\ Get(Get(resp[r][1], "result"), "codigo") = Num(404)

\* C6: when the resolution call of deletar_atleta returns a value without
\* an id member, no DELETE call is issued for the request and the result is
\* exactly {status: "erro", detalhe: "Atleta não encontrado"}
C6_NoIdNoDelete ==
    \A r \in Reqs :
        (/\ Runs(r, "deletar_atleta")
         /\ Len(rets[r]) >= 1
         /\ ~Has(CallApiReturn(rets[r][1]), "id"))
        => /\ pc[r] = "done"
           /\ Len(calls[r]) = 1
           /\ \A i \in DOMAIN calls[r] : calls[r][i].method # "DELETE"
           /\ Len(resp[r]) = 1
           /\ Get(resp[r][1], "result") =
                  Obj([status |-> Str("erro"), detalhe |-> Str("Atleta não encontrado")])
           /\ ~Has(resp[r][1], "error")
C6_Witness ==
    \E r \in Reqs : /\ pc[r] = "done"
                    /\ Runs(r, "deletar_atleta")
                    /\ rets[r] = <<Resolved(Obj([name |-> Str("Ana")]))>>
                    /\ Len(calls[r]) = 1

\* C7: every response carries the id of the request it answers, and has no
\* id when the request has none, also while other requests are in flight
C7_IdEchoed ==
    \A r \in Reqs : \A i \in DOMAIN resp[r] :
        /\ Get(resp[r][i], "id") = Get(req[r], "id")
        /\ Has(resp[r][i], "id") = Has(req[r], "id")
C7_Witness ==
    \E r, q \in Reqs : /\ r < q
                       /\ pc[r] \in {"call", "resolve", "delete"}
                       /\ pc[q] = "done"
                       /\ Len(rets[q]) > 0
                       /\ Get(req[r], "id") # Get(req[q], "id")

\* C8: the result of tools/list lists the 11 declared tools in declaration
\* order, with distinct non-empty names and an inputSchema each, and it is
\* the same list on every call
C8_Listing ==
    \A r \in Reqs :
        IsMethod(r, "tools/list")
        => LET ts == Get(Get(resp[r][1], "result"), "tools")
           IN  /\ pc[r] = "done"
               /\ ts.t = "arr"
               /\ Len(ts.e) = 11
               /\ \A i \in DOMAIN ts.e :
                     /\ Get(ts.e[i], "name") = Str(DeclaredNames[i])
                     /\ Get(ts.e[i], "name").s # ""
                     /\ Has(ts.e[i], "inputSchema")
                     /\ Get(ts.e[i], "inputSchema").t = "obj"
               /\ \A i, j \in DOMAIN ts.e :
                     i # j => Get(ts.e[i], "name") # Get(ts.e[j], "name")
               /\ \A q \in Reqs :
                     IsMethod(q, "tools/list")
                     => Get(Get(resp[q][1], "result"), "tools") = ts
C8_Witness ==
    \E r, q \in Reqs : /\ r # q
                       /\ IsMethod(r, "tools/list")
                       /\ IsMethod(q, "tools/list")
                       /\ Len(Get(Get(resp[r][1], "result"), "tools").e) = 11

\* the response without its id
StripId(v) == Obj([k \in DOMAIN v.f \ {"id"} |-> v.f[k]])

\* C9: two tools/list requests, and two initialize requests, get the same
\* response apart from the id, whatever requests are handled between them
C9_Idempotent ==
    \A r, q \in Reqs :
        \A m \in {"initialize", "tools/list"} :
            (IsMethod(r, m) /\ IsMethod(q, m))
            => StripId(resp[r][1]) = StripId(resp[q][1])
C9_Witness ==
    \E r, q, p \in Reqs :
        /\ r < q /\ q < p
        /\ IsMethod(r, "tools/list") /\ IsMethod(p, "tools/list")
        /\ Get(req[r], "id") # Get(req[p], "id")
        /\ Runs(q, "deletar_atleta") /\ pc[q] = "done" /\ Len(rets[q]) = 2

\* C10 as stated: a request with a body {id, method, params?}, none of
\* whose remote calls is outstanding, has received exactly one response
C10_AlwaysAnswered ==
    \A r \in Reqs :
        (/\ pc[r] # "idle"
         /\ ~Throws(req[r])
         /\ Len(rets[r]) = Len(calls[r]))
        => Len(resp[r]) = 1

\* request r is suspended in a remote call
Pending(r) == pc[r] \in {"call", "resolve", "delete"}

\* C11: a request whose own remote calls return reaches its response,
\* whatever the other requests do, one whose remote call never returns
\* included
C11_OthersProgress ==
    \A r \in Reqs : WF_vars(Returns(r)) => (Pending(r) ~> pc[r] = "done")
C11_Witness ==
    \E r, q \in Reqs : /\ r < q
                       /\ pc[r] = "call"
                       /\ rets[r] = <<>>
                       /\ Runs(q, "deletar_atleta")
                       /\ pc[q] = "done"
                       /\ Len(rets[q]) = 2

\* C12 as stated: when the resolution call of deletar_atleta returns a
\* payload with an id member, whatever its value, the handler issues one
\* DELETE to /athletes/<id> and its result is the outcome of that call
C12_IdFieldDeletes ==
    \A r \in Reqs :
        (/\ Runs(r, "deletar_atleta")
         /\ Len(rets[r]) >= 1
         /\ rets[r][1].ok
         /\ Has(rets[r][1].data, "id"))
        => /\ Len(calls[r]) = 2
           /\ calls[r][2].method = "DELETE"
           /\ calls[r][2].url = VECTOR_API_URL \o "/athletes/"
                                   \o ToStr(Get(rets[r][1].data, "id"))
           /\ pc[r] = "done"
              => /\ Len(rets[r]) = 2
                 /\ Get(resp[r][1], "result") = Json(CallApiReturn(rets[r][2]))

\* the HTTP method of the first remote call of each tool
FirstVerb(fn) ==
    IF fn \in {"adicionar_atleta", "registrar_treino", "registrar_avaliacao",
               "registrar_bem_estar", "gerar_mesociclo"}
    THEN "POST" ELSE "GET"

\* C13 as stated: a request that runs no tool handler issues no remote call; a tool
\* other than deletar_atleta issues exactly one; deletar_atleta issues its
\* GET and at most one DELETE after it; no call follows a failed call
C13_RemoteCalls ==
    \A r \in Reqs :
        /\ tool[r] = Undefined => calls[r] = <<>>
        /\ tool[r] # Undefined
           => /\ Len(calls[r]) >= 1
              /\ calls[r][1].method = FirstVerb(Get(tool[r], "name").s)
              /\ Len(calls[r]) <= (IF Runs(r, "deletar_atleta") THEN 2 ELSE 1)
              /\ Len(calls[r]) = 2 => calls[r][2].method = "DELETE"
              /\ Len(rets[r]) <= Len(calls[r])
              /\ pc[r] = "done" => Len(rets[r]) = Len(calls[r])
        /\ \A i \in DOMAIN rets[r] : ~rets[r][i].ok => Len(calls[r]) = i
\* does request r name a tool of the catalog
NamesTool(r) ==
    /\ IsMethod(r, "tools/call")
    /\ ~Throws(ParamsOf(r))
    /\ \E i \in DOMAIN DeclaredNames : Get(ParamsOf(r), "name") = Str(DeclaredNames[i])

\* is a member that the inputSchema.required of the tool of r lists missing
\* from the arguments the handler was called with
MissingRequired(r) ==
    LET required == Get(Get(tool[r], "inputSchema"), "required").e
    IN  \E i \in DOMAIN required : Get(args[r], required[i].s) = Undefined

\* C14 as stated: a tools/call that names a registered tool selects the
\* handler of that tool and is never answered with `error`; when
\* params.arguments is absent the handler runs with {}; when required
\* members are missing the handler issues its remote call and, once its
\* remote calls have returned, the response has `result`
C14_ArgumentsUnchecked ==
    \A r \in Reqs :
        NamesTool(r)
        => /\ tool[r] # Undefined
           /\ Get(tool[r], "name") = Get(ParamsOf(r), "name")
           /\ ~Has(ParamsOf(r), "arguments") => args[r] = EmptyObj
           /\ \A i \in DOMAIN resp[r] : ~Has(resp[r][i], "error")
           /\ MissingRequired(r)
              => /\ Len(calls[r]) >= 1
                 /\ Len(rets[r]) = Len(calls[r])
                    => Len(resp[r]) = 1 /\ Has(resp[r][1], "result")

\* C15: what a request does is determined by its body and by the outcomes
\* of its own remote calls: two requests with the same body and the same
\* outcomes so far, at whatever place in the history, have issued the same
\* calls and sent the same response
C15_Stateless ==
    \A r, q \in Reqs :
        (/\ pc[r] # "idle"
         /\ pc[q] # "idle"
         /\ req[r] = req[q]
         /\ rets[r] = rets[q])
        => /\ calls[r] = calls[q]
           /\ resp[r] = resp[q]
C15_Witness ==
    \E r, p, q \in Reqs : /\ r < p
                          /\ p < q
                          /\ req[p] # req[r]
                          /\ pc[p] # "done"
                          /\ req[r] = req[q]
                          /\ Runs(r, "deletar_atleta")
                          /\ Len(rets[r]) = 2
                          /\ rets[r] = rets[q]
                          /\ pc[r] = "done"
                          /\ pc[q] = "done"
                          /\ resp[r] = resp[q]

\* C16: the DELETE a deletar_atleta request issues names the id that the
\* resolution GET of the same request returned, in every interleaving of
\* the requests; the witness is two requests for the same athlete that are
\* both past their resolution, neither DELETE returned, with the same DELETE
C16_OwnIdentifier ==
    \A r \in Reqs :
        Len(calls[r]) = 2
        => /\ rets[r][1].ok
           /\ calls[r][2].method = "DELETE"
           /\ calls[r][2].url = VECTOR_API_URL \o "/athletes/"
                                   \o ToStr(Get(rets[r][1].data, "id"))
C16_Witness ==
    \E r, q, p \in Reqs : /\ r # q
                          /\ pc[r] = "delete"
                          /\ pc[q] = "delete"
                          /\ calls[r][1] = calls[q][1]
                          /\ Len(rets[r]) = 1
                          /\ Len(rets[q]) = 1
                          /\ calls[r][2] = calls[q][2]
                          /\ p \notin {r, q}
                          /\ pc[p] = "delete"
                          /\ calls[p][2] # calls[r][2]

====
